---- MODULE Spec2Model ----
(***************************************************************************)
(* Model of src/bg.js: two self-contained background animators (immediately*)
(* invoked function expressions) that share the element 'bg-canvas'.       *)
(*   animator A (lines 6-155):   ages particles by advancing createdAt by  *)
(*                               the clamped frame delta;                  *)
(*   animator B (lines 164-297): ages particles by wall-clock subtraction. *)
(* Numbers that are not integers in the program (radius, position,         *)
(* lifetime, alpha, scale) are exact rationals [n, d]; d = 0 stands for a  *)
(* value that is not finite (NaN, Infinity) or is undefined.  Rounding of  *)
(* IEEE doubles is not modelled.  Timestamps are whole milliseconds.       *)
(* Colour (hue, sat, light: lines 57-61, 215-219) is not modelled: it is   *)
(* drawn after radius/x/y, stored, and only passed to the gradient.        *)
(***************************************************************************)
EXTENDS Integers, Sequences, FiniteSets, TLC

VARIABLES
  window,                 \* [innerWidth, innerHeight, devicePixelRatio]
  canvas,                 \* the shared element: [width, height, styleWidth, styleHeight]
  ctx,                    \* the shared 2D context: [transform, globalAlpha, surface]
  devicePixelRatioScaleA, \* line 14
  devicePixelRatioScaleB, \* line 172
  circlesA,               \* line 36
  circlesB,               \* line 194
  lastSpawnA,             \* line 75
  lastSpawnB,             \* line 233
  lastNow,                \* line 77 (animator A only)
  rafQueue,               \* callbacks registered with requestAnimationFrame, in order
  now,                    \* history: timestamp of the latest refresh tick
  ticks,                  \* history: number of refresh ticks so far
  resizes,                \* history: number of resize events so far
  lastOp,                 \* history: "init", "tick", "resize", or "resize again" for a
                          \*   resize that follows a resizeCanvas call and finds the
                          \*   window as that call found it
  nextId,                 \* history: identity given to the next spawned particle
  frameA,                 \* history: what animator A did in its latest frame
  frameB,                 \* history: what animator B did in its latest frame
  probe                   \* input and output of the per-particle function under test

vars == <<window, canvas, ctx, devicePixelRatioScaleA, devicePixelRatioScaleB,
          circlesA, circlesB, lastSpawnA, lastSpawnB, lastNow, rafQueue,
          now, ticks, resizes, lastOp, nextId, frameA, frameB, probe>>

----------------------------------------------------------------------------
(* Exact rational arithmetic.                                              *)

Abs(a) == IF a < 0 THEN -a ELSE a

Sign(a) == IF a < 0 THEN -1 ELSE IF a > 0 THEN 1 ELSE 0

MinInt(a, b) == IF a < b THEN a ELSE b

MaxInt(a, b) == IF a > b THEN a ELSE b

RECURSIVE GCD(_, _)
GCD(a, b) == IF b = 0 THEN a ELSE GCD(b, a % b)

\* n/d in lowest terms with d > 0; anything over 0 is not finite.
Rat(n, d) ==
  IF d = 0 THEN [n |-> Sign(n), d |-> 0]
  ELSE LET Lowest(g) == [n |-> (Sign(d) * n) \div g, d |-> Abs(d) \div g]
       IN Lowest(GCD(Abs(n), Abs(d)))

RInt(a) == [n |-> a, d |-> 1]

IsFinite(r) == r.d # 0

RAdd(p, q) == Rat(p.n * q.d + q.n * p.d, p.d * q.d)

RSub(p, q) == Rat(p.n * q.d - q.n * p.d, p.d * q.d)

RMul(p, q) == Rat(p.n * q.n, p.d * q.d)

RDiv(p, q) == Rat(p.n * q.d, p.d * q.n)

RNeg(p) == [n |-> -p.n, d |-> p.d]

\* Comparisons of finite values.
RLt(p, q) == p.n * q.d < q.n * p.d

RLe(p, q) == p.n * q.d <= q.n * p.d

REq(p, q) == p.n * q.d = q.n * p.d

RMin(p, q) == IF RLe(p, q) THEN p ELSE q

RMax(p, q) == IF RLe(q, p) THEN p ELSE q

\* Math.floor of a finite value.
Floor(p) == p.n \div p.d

\* JavaScript truthiness of a number: 0, NaN and undefined are falsy.
Falsy(p) == p.d = 0 \/ p.n = 0

----------------------------------------------------------------------------
(* Bounds of the model.                                                    *)

\* Math.random() returns k / RandDen for k in 0 .. RandDen-1.
RandDen == 4

\* Resize events explored.
MaxResizes == 2

----------------------------------------------------------------------------
(* Surface manager.                                                        *)

Identity == <<RInt(1), RInt(0), RInt(0), RInt(1), RInt(0), RInt(0)>>

\* Assigning canvas.width or canvas.height resets the context to its default
\* state and clears the bitmap (the host's behaviour for lines 23-24).
ResetContext == [transform |-> Identity, globalAlpha |-> RInt(1), surface |-> <<>>]

\* resizeCanvas scaling the canvas's current size instead of the window's.
resizeCanvasFromCanvas(s, win) ==
  LET innerWidth == win.innerWidth
      innerHeight == win.innerHeight
      devicePixelRatio == win.devicePixelRatio
      scale == RMin(RInt(2), IF Falsy(devicePixelRatio) THEN RInt(1) ELSE devicePixelRatio)
  IN [scale |-> scale,
      canvas |-> [width |-> Floor(RMul(RInt(s.canvas.width), scale)),
                  height |-> Floor(RMul(RInt(s.canvas.height), scale)),
                  styleWidth |-> innerWidth,
                  styleHeight |-> innerHeight],
      ctx |-> [ResetContext EXCEPT
                 !.transform = <<scale, RInt(0), RInt(0), scale, RInt(0), RInt(0)>>]]

\* resizeCanvas without the setTransform call of line 31: the transform stays
\* what the size assignment reset it to.
resizeCanvasWithoutTransform(s, win) ==
  LET innerWidth == win.innerWidth
      innerHeight == win.innerHeight
      devicePixelRatio == win.devicePixelRatio
      scale == RMin(RInt(2), IF Falsy(devicePixelRatio) THEN RInt(1) ELSE devicePixelRatio)
  IN [scale |-> scale,
      canvas |-> [width |-> Floor(RMul(RInt(innerWidth), scale)),
                  height |-> Floor(RMul(RInt(innerHeight), scale)),
                  styleWidth |-> innerWidth,
                  styleHeight |-> innerHeight],
      ctx |-> ResetContext]

\* resizeCanvas without the cap of 2 on the scale.
resizeCanvasUncapped(s, win) ==
  LET innerWidth == win.innerWidth
      innerHeight == win.innerHeight
      devicePixelRatio == win.devicePixelRatio
      scale == IF Falsy(devicePixelRatio) THEN RInt(1) ELSE devicePixelRatio
  IN [scale |-> scale,
      canvas |-> [width |-> Floor(RMul(RInt(innerWidth), scale)),
                  height |-> Floor(RMul(RInt(innerHeight), scale)),
                  styleWidth |-> innerWidth,
                  styleHeight |-> innerHeight],
      ctx |-> [ResetContext EXCEPT
                 !.transform = <<scale, RInt(0), RInt(0), scale, RInt(0), RInt(0)>>]]

\* resizeCanvas of lines 17-32; lines 175-190 are the same text.  s is
\* [scale, canvas, ctx]; win is the window object read at line 18.
resizeCanvas(s, win) ==
  LET innerWidth == win.innerWidth
      innerHeight == win.innerHeight
      devicePixelRatio == win.devicePixelRatio
      scale == RMin(RInt(2), IF Falsy(devicePixelRatio) THEN RInt(1) ELSE devicePixelRatio)
  IN [scale |-> scale,
      canvas |-> [width |-> Floor(RMul(RInt(innerWidth), scale)),
                  height |-> Floor(RMul(RInt(innerHeight), scale)),
                  styleWidth |-> innerWidth,
                  styleHeight |-> innerHeight],
      ctx |-> [ResetContext EXCEPT
                 !.transform = <<scale, RInt(0), RInt(0), scale, RInt(0), RInt(0)>>]]

----------------------------------------------------------------------------
(* Particle spawner.                                                       *)

\* random(min, max) of lines 39-41 and 197-199, for Math.random() = k/RandDen.
random(min, max, k) == RAdd(RMul(Rat(k, RandDen), RSub(max, min)), min)

\* spawnCircle with x drawn from the range of y.
ParticleXFromHeight(win, pd, lifeMs, perfNow, id) ==
  LET w == win.innerWidth
      h == win.innerHeight
      maxRadius == RMul(RInt(MaxInt(w, h)), Rat(8, 100))
      minRadius == RMax(RInt(20), RMul(RInt(MinInt(w, h)), Rat(1, 100)))
      Circle(radius) ==
        [x |-> random(RNeg(radius), RAdd(RInt(h), radius), pd.x),
         y |-> random(RNeg(radius), RAdd(RInt(h), radius), pd.y),
         radius |-> radius, lifeMs |-> lifeMs,
         fadeInPortion |-> Rat(25, 100), fadeOutPortion |-> Rat(25, 100),
         createdAt |-> perfNow,
         id |-> id, bornAt |-> perfNow]
  IN Circle(random(minRadius, maxRadius, pd.radius))

\* The particle pushed by spawnCircle (lines 45-55 and 67-71; lines 203-213
\* and 225-229 are the same text).  pd holds the outcomes of its random draws,
\* perfNow the reading of performance.now(); id and bornAt are history.
Particle(win, pd, lifeMs, perfNow, id) ==
  LET w == win.innerWidth
      h == win.innerHeight
      maxRadius == RMul(RInt(MaxInt(w, h)), Rat(8, 100))
      minRadius == RMax(RInt(20), RMul(RInt(MinInt(w, h)), Rat(1, 100)))
      Circle(radius) ==
        [x |-> random(RNeg(radius), RAdd(RInt(w), radius), pd.x),
         y |-> random(RNeg(radius), RAdd(RInt(h), radius), pd.y),
         radius |-> radius, lifeMs |-> lifeMs,
         fadeInPortion |-> Rat(25, 100), fadeOutPortion |-> Rat(25, 100),
         createdAt |-> perfNow,
         id |-> id, bornAt |-> perfNow]
  IN Circle(random(minRadius, maxRadius, pd.radius))

\* spawnCircle of animator A (lines 44-72).
spawnCircleA(circles, win, pd, perfNow, id) ==
  Append(circles,
         Particle(win, pd, random(RInt(9000), RInt(14000), pd.lifeMs), perfNow, id))

\* spawnCircle of animator B (lines 202-230).
spawnCircleB(circles, win, pd, perfNow, id) ==
  Append(circles,
         Particle(win, pd, random(RInt(6000), RInt(12000), pd.lifeMs), perfNow, id))

\* Line 97 / 249: Math.random() < 0.2 ? Math.floor(random(2, 4)) : 1
burstCount(draw) ==
  IF RLt(Rat(draw.burst, RandDen), Rat(2, 10))
  THEN Floor(random(RInt(2), RInt(4), draw.size))
  ELSE 1

----------------------------------------------------------------------------
(* Render loop.  A frame works on the record m of everything a frame can   *)
(* change: [circlesA, circlesB, lastSpawnA, lastSpawnB, lastNow, ctx,      *)
(* rafQueue, nextId, frameA, frameB].  t is the timestamp argument of      *)
(* animate; draw holds the random outcomes of the frame:                   *)
(* [burst, size, parts: 3 x [radius, x, y, lifeMs, skew]], where skew is   *)
(* performance.now() minus t at the spawnCircle call.                      *)

\* circles.splice(i, 1), 1-based.
splice(circles, i) ==
  [j \in 1 .. Len(circles) - 1 |-> IF j < i THEN circles[j] ELSE circles[j + 1]]

\* The setter taking the range to be [0, 1).
SetGlobalAlphaBelowOne(cx, v) ==
  IF IsFinite(v) /\ RLe(RInt(0), v) /\ RLt(v, RInt(1))
  THEN [cx EXCEPT !.globalAlpha = v]
  ELSE cx

\* The setter of ctx.globalAlpha ignores values outside [0, 1] and values
\* that are not finite (the host's behaviour for lines 135, 148, 279, 290).
SetGlobalAlpha(cx, v) ==
  IF IsFinite(v) /\ RLe(RInt(0), v) /\ RLe(v, RInt(1))
  THEN [cx EXCEPT !.globalAlpha = v]
  ELSE cx

\* The fill of lines 136-144 / 280-286 leaves a mark on the surface.
Fill(cx, by, c) ==
  [cx EXCEPT !.surface = Append(@, [by |-> by, id |-> c.id, alpha |-> cx.globalAlpha])]

\* clearRect(0, 0, w, h) of lines 87 / 243 on the bitmap of canvas cv: the
\* rectangle is mapped through the current transform (a scaling); when it
\* covers the bitmap nothing drawn remains, otherwise what lies outside it may.
ClearRect(cx, w, h, cv) ==
  IF /\ RLe(RInt(cv.width), RMul(w, cx.transform[1]))
     /\ RLe(RInt(cv.height), RMul(h, cx.transform[4]))
  THEN [cx EXCEPT !.surface = <<>>]
  ELSE cx

\* The expiry test with > in place of >=.
expiredStrictly(age, c) == RLt(c.lifeMs, RInt(age))

\* Line 108 / 257: the expiry test.
expired(age, c) == RLe(c.lifeMs, RInt(age))

\* Lines 111-128: alpha of animator A before the dimming multiplier.
alphaA(age, c) ==
  LET Ease(t) == IF RLt(t, c.fadeInPortion)
                 THEN RDiv(t, c.fadeInPortion)
                 ELSE IF RLt(RSub(RInt(1), c.fadeOutPortion), t)
                      THEN RDiv(RSub(RInt(1), t), c.fadeOutPortion)
                      ELSE RInt(1)
      Clamp(alpha) == RMax(RInt(0), RMin(IF ~IsFinite(alpha) THEN RInt(0) ELSE alpha,
                                         RInt(1)))
  IN Clamp(Ease(RDiv(RInt(age), c.lifeMs)))

\* alphaB with the fade-out test t > fadeOutPortion (the "1 -" dropped).
alphaBFadeOutEarly(age, c) ==
  LET Ease(t) == IF RLt(t, c.fadeInPortion)
                 THEN RDiv(t, c.fadeInPortion)
                 ELSE IF RLt(c.fadeOutPortion, t)
                      THEN RDiv(RSub(RInt(1), t), c.fadeOutPortion)
                      ELSE RInt(1)
  IN Ease(RDiv(RInt(age), c.lifeMs))

\* Lines 260-273: alpha of animator B before the dimming multiplier.
alphaB(age, c) ==
  LET Ease(t) == IF RLt(t, c.fadeInPortion)
                 THEN RDiv(t, c.fadeInPortion)
                 ELSE IF RLt(RSub(RInt(1), c.fadeOutPortion), t)
                      THEN RDiv(RSub(RInt(1), t), c.fadeOutPortion)
                      ELSE RInt(1)
  IN Ease(RDiv(RInt(age), c.lifeMs))

\* What a frame records about itself (history).
NoFrame ==
  [ran |-> FALSE, now |-> 0, delta |-> 0, spawned |-> 0, cleared |-> <<RInt(0), RInt(0)>>,
   pending |-> <<>>, examined |-> <<>>, seen |-> <<>>, removed |-> <<>>, drawn |-> <<>>]

\* What the loop body records about a particle it examines.
Seen(c, age) == [id |-> c.id, age |-> age, lifeMs |-> c.lifeMs]

\* What the loop body records about a particle it draws.
Drawn(c, age, alpha, handed) ==
  [id |-> c.id, age |-> age, lifeMs |-> c.lifeMs, alpha |-> alpha, handed |-> handed]

\* Lines 103-144: the body of animator A's loop for index i.
\* acc is [circles, ctx, frame].
bodyA(acc, i, t, delta) ==
  LET Draw(c, age, alpha) ==
        [circles |-> [acc.circles EXCEPT ![i] = c],
         ctx |-> Fill(SetGlobalAlpha(acc.ctx, RMul(alpha, Rat(22, 100))), "A", c),
         frame |-> [acc.frame EXCEPT
                      !.examined = Append(@, c.id),
                      !.seen = Append(@, Seen(c, age)),
                      !.drawn = Append(@, Drawn(c, age, alpha, RMul(alpha, Rat(22, 100))))]]
      Visit(c, age) ==
        IF expired(age, c)
        THEN [acc EXCEPT !.circles = splice(@, i),
                         !.frame = [@ EXCEPT !.examined = Append(@, c.id),
                                             !.seen = Append(@, Seen(c, age)),
                                             !.removed = Append(@, c.id)]]
        ELSE Draw(c, age, alphaA(age, c))
      Advance(c) == Visit(c, t - c.createdAt)
  IN Advance([acc.circles[i] EXCEPT !.createdAt = @ + delta])

\* The loop walking forward: for (i = 0; i < circles.length; i++), from
\* index lo.
RECURSIVE loopAForward(_, _, _, _, _)
loopAForward(acc, hi, lo, t, delta) ==
  IF lo > Len(acc.circles) THEN acc
  ELSE loopAForward(bodyA(acc, lo, t, delta), hi, lo + 1, t, delta)

\* Lines 102-145: the iterations i = hi, hi-1, ..., lo of animator A's
\* reverse loop, in that order: first those above the middle index, then the
\* rest on their result (halving keeps the evaluation shallow).
RECURSIVE loopA(_, _, _, _, _)
loopA(acc, hi, lo, t, delta) ==
  IF hi < lo THEN acc
  ELSE IF hi = lo THEN bodyA(acc, hi, t, delta)
  ELSE CHOOSE r \in {loopA(upper, (hi + lo) \div 2, lo, t, delta) :
                       upper \in {loopA(acc, hi, (hi + lo) \div 2 + 1, t, delta)}} : TRUE

\* Lines 255-286: the body of animator B's loop for index i.
bodyB(acc, i, t) ==
  LET Draw(c, age, alpha) ==
        [circles |-> acc.circles,
         ctx |-> Fill(SetGlobalAlpha(acc.ctx, RMul(alpha, Rat(25, 100))), "B", c),
         frame |-> [acc.frame EXCEPT
                      !.examined = Append(@, c.id),
                      !.seen = Append(@, Seen(c, age)),
                      !.drawn = Append(@, Drawn(c, age, alpha, RMul(alpha, Rat(25, 100))))]]
      Visit(c, age) ==
        IF expired(age, c)
        THEN [acc EXCEPT !.circles = splice(@, i),
                         !.frame = [@ EXCEPT !.examined = Append(@, c.id),
                                             !.seen = Append(@, Seen(c, age)),
                                             !.removed = Append(@, c.id)]]
        ELSE Draw(c, age, alphaB(age, c))
  IN Visit(acc.circles[i], t - acc.circles[i].createdAt)

\* Lines 254-287: the iterations i = hi, hi-1, ..., lo of animator B's
\* reverse loop, in that order.
RECURSIVE loopB(_, _, _, _)
loopB(acc, hi, lo, t) ==
  IF hi < lo THEN acc
  ELSE IF hi = lo THEN bodyB(acc, hi, t)
  ELSE CHOOSE r \in {loopB(upper, (hi + lo) \div 2, lo, t) :
                       upper \in {loopB(acc, hi, (hi + lo) \div 2 + 1, t)}} : TRUE

\* Line 98: for (i = 0; i < count; i++) spawnCircle().
RECURSIVE spawnLoopA(_, _, _, _, _, _)
spawnLoopA(circles, i, count, t, draw, id) ==
  IF i > count THEN circles
  ELSE spawnLoopA(spawnCircleA(circles, window, draw.parts[i], t + draw.parts[i].skew,
                               id + i - 1),
                  i + 1, count, t, draw, id)

\* Line 250: for (i = 0; i < count; i++) spawnCircle().
RECURSIVE spawnLoopB(_, _, _, _, _, _)
spawnLoopB(circles, i, count, t, draw, id) ==
  IF i > count THEN circles
  ELSE spawnLoopB(spawnCircleB(circles, window, draw.parts[i], t + draw.parts[i].skew,
                               id + i - 1),
                  i + 1, count, t, draw, id)

\* The spawn gate with >= in place of >.
spawnDueAtInterval(t, lastSpawn) == t - lastSpawn >= 400

\* Line 94 / 246: the spawn gate.
spawnDue(t, lastSpawn) == t - lastSpawn > 400

\* The delta without its cap of 50 ms.
frameDeltaUncapped(t, last) == MaxInt(t - last, 0)

\* The clamp with Math.min and Math.max swapped.
frameDeltaMinMaxSwapped(t, last) == MaxInt(MinInt(t - last, 0), 50)

\* Line 90: the clamped frame delta.
frameDelta(t, last) == MinInt(MaxInt(t - last, 0), 50)

\* requestAnimationFrame registering the callback twice.
requestAnimationFrameTwice(queue, callback) == Append(Append(queue, callback), callback)

\* requestAnimationFrame(callback) of lines 81, 154, 237 and 296: the host
\* appends the callback to those it runs at the next refresh tick.
requestAnimationFrame(queue, callback) == Append(queue, callback)

\* animate of animator A (lines 80-149).
animateA(m, t, draw) ==
  LET scheduled == [m EXCEPT !.rafQueue = requestAnimationFrame(@, "A")]
      w == RDiv(RInt(canvas.width), devicePixelRatioScaleA)
      h == RDiv(RInt(canvas.height), devicePixelRatioScaleA)
      End(delta, due, count, done) ==
        [scheduled EXCEPT
                  !.lastNow = t,
                  !.lastSpawnA = IF due THEN t ELSE @,
                  !.circlesA = done.circles,
                  !.ctx = SetGlobalAlpha(done.ctx, RInt(1)),
                  !.nextId = @ + count,
                  !.frameA = done.frame]
      Loop(delta, due, count, circles) ==
        End(delta, due, count,
            loopA([circles |-> circles,
                   ctx |-> ClearRect(m.ctx, w, h, canvas),
                   frame |-> [NoFrame EXCEPT !.ran = TRUE, !.now = t, !.delta = delta,
                                             !.spawned = count, !.cleared = <<w, h>>,
                                             !.pending = scheduled.rafQueue]],
                  Len(circles), 1, t, delta))
      Spawn(delta, due, count) ==
        Loop(delta, due, count, spawnLoopA(m.circlesA, 1, count, t, draw, m.nextId))
      Gate(delta, due) == Spawn(delta, due, IF due THEN burstCount(draw) ELSE 0)
  IN Gate(frameDelta(t, m.lastNow), spawnDue(t, m.lastSpawnA))

\* animate of animator B (lines 236-291).
animateB(m, t, draw) ==
  LET scheduled == [m EXCEPT !.rafQueue = requestAnimationFrame(@, "B")]
      w == RDiv(RInt(canvas.width), devicePixelRatioScaleB)
      h == RDiv(RInt(canvas.height), devicePixelRatioScaleB)
      End(due, count, done) ==
        [scheduled EXCEPT
                  !.lastSpawnB = IF due THEN t ELSE @,
                  !.circlesB = done.circles,
                  !.ctx = SetGlobalAlpha(done.ctx, RInt(1)),
                  !.nextId = @ + count,
                  !.frameB = done.frame]
      Loop(due, count, circles) ==
        End(due, count,
            loopB([circles |-> circles,
                   ctx |-> ClearRect(m.ctx, w, h, canvas),
                   frame |-> [NoFrame EXCEPT !.ran = TRUE, !.now = t,
                                             !.spawned = count, !.cleared = <<w, h>>,
                                             !.pending = scheduled.rafQueue]],
                  Len(circles), 1, t))
      Spawn(due, count) ==
        Loop(due, count, spawnLoopB(m.circlesB, 1, count, t, draw, m.nextId))
      Gate(due) == Spawn(due, IF due THEN burstCount(draw) ELSE 0)
  IN Gate(spawnDue(t, m.lastSpawnB))

\* The host running the callbacks last registered first.
RECURSIVE runCallbacksLastFirst(_, _, _, _, _)
runCallbacksLastFirst(queue, m, t, drawA, drawB) ==
  IF queue = <<>> THEN m
  ELSE runCallbacksLastFirst(SubSeq(queue, 1, Len(queue) - 1),
                             IF queue[Len(queue)] = "A" THEN animateA(m, t, drawA)
                                                        ELSE animateB(m, t, drawB),
                             t, drawA, drawB)

\* The host runs the callbacks registered before the tick, in registration
\* order, all with the same timestamp t.
RECURSIVE runCallbacks(_, _, _, _, _)
runCallbacks(queue, m, t, drawA, drawB) ==
  IF queue = <<>> THEN m
  ELSE runCallbacks(Tail(queue),
                    IF Head(queue) = "A" THEN animateA(m, t, drawA)
                                         ELSE animateB(m, t, drawB),
                    t, drawA, drawB)

----------------------------------------------------------------------------
(* Inputs.                                                                 *)

\* performance.now() read by spawnCircle is at most MaxSkew ms after the
\* frame's timestamp.
MaxSkew == 5

Win(w, h, dpr) == [innerWidth |-> w, innerHeight |-> h, devicePixelRatio |-> dpr]

\* devicePixelRatio missing.
Undefined == [n |-> 0, d |-> 0]

\* One spawnCircle call whose draws are all k / RandDen.
PartDraw(k, skew) == [radius |-> k, x |-> k, y |-> k, lifeMs |-> k, skew |-> skew]

Short == PartDraw(0, 0)

Long == PartDraw(RandDen - 1, MaxSkew)

\* The three outcomes of line 97 / 249: one particle, a burst of 2, a burst of 3.
One(parts) == [burst |-> RandDen - 1, size |-> 0, parts |-> parts]

Two(parts) == [burst |-> 0, size |-> 0, parts |-> parts]

Three(parts) == [burst |-> 0, size |-> RandDen - 1, parts |-> parts]

\* Draws are read only by a frame in which a spawn is due: other frames get
\* one arbitrary draw.
WhenDue(t, draws) ==
  IF spawnDue(t, lastSpawnA) \/ spawnDue(t, lastSpawnB)
  THEN draws
  ELSE {CHOOSE d \in draws : TRUE}

----------------------------------------------------------------------------
(* The state machine.                                                      *)

\* The state after both function expressions have run (lines 152-154 and
\* 294-296) in a window win: each sized the canvas and registered its first
\* frame.
Boot(win) ==
  \E a \in {resizeCanvas([scale |-> RInt(1),
                          canvas |-> [width |-> 300, height |-> 150,
                                      styleWidth |-> 0, styleHeight |-> 0],
                          ctx |-> ResetContext], win)} :
  \E b \in {resizeCanvas([a EXCEPT !.scale = RInt(1)], win)} :
    /\ window = win
    /\ canvas = b.canvas
    /\ ctx = b.ctx
    /\ devicePixelRatioScaleA = a.scale
    /\ devicePixelRatioScaleB = b.scale
    /\ circlesA = <<>>
    /\ circlesB = <<>>
    /\ lastSpawnA = 0
    /\ lastSpawnB = 0
    /\ lastNow = 0
    /\ rafQueue = requestAnimationFrame(requestAnimationFrame(<<>>, "A"), "B")
    /\ now = 0
    /\ ticks = 0
    /\ resizes = 0
    /\ lastOp = "init"
    /\ nextId = 1
    /\ frameA = NoFrame
    /\ frameB = NoFrame

\* No particle is under test.
NoProbe == [variant |-> "none", lifeMs |-> 0, age |-> 0, delta |-> 0, done |-> FALSE,
            frame |-> NoFrame]

\* A refresh tick with timestamp t: every registered callback runs once.
\* drawA and drawB are the random outcomes met by the two animators.
Tick(t, drawA, drawB) ==
  /\ t >= now
  /\ \E m \in {runCallbacks(rafQueue,
                            [circlesA |-> circlesA, circlesB |-> circlesB,
                             lastSpawnA |-> lastSpawnA, lastSpawnB |-> lastSpawnB,
                             lastNow |-> lastNow, ctx |-> ctx, rafQueue |-> <<>>,
                             nextId |-> nextId, frameA |-> frameA, frameB |-> frameB],
                            t, drawA, drawB)} :
        /\ circlesA' = m.circlesA
        /\ circlesB' = m.circlesB
        /\ lastSpawnA' = m.lastSpawnA
        /\ lastSpawnB' = m.lastSpawnB
        /\ lastNow' = m.lastNow
        /\ ctx' = m.ctx
        /\ rafQueue' = m.rafQueue
        /\ nextId' = m.nextId
        /\ frameA' = m.frameA
        /\ frameB' = m.frameB
  /\ now' = t
  /\ ticks' = ticks + 1
  /\ lastOp' = "tick"
  /\ UNCHANGED <<window, canvas, devicePixelRatioScaleA, devicePixelRatioScaleB,
                 resizes, probe>>

\* A resize event whose listeners also drop the particles placed for the
\* previous viewport.
ResizeEventClearing(win) ==
  \E a \in {resizeCanvas([scale |-> devicePixelRatioScaleA, canvas |-> canvas, ctx |-> ctx],
                          win)} :
  \E b \in {resizeCanvas([scale |-> devicePixelRatioScaleB, canvas |-> a.canvas,
                           ctx |-> a.ctx], win)} :
     /\ window' = win
     /\ devicePixelRatioScaleA' = a.scale
     /\ devicePixelRatioScaleB' = b.scale
     /\ canvas' = b.canvas
     /\ ctx' = b.ctx
     /\ resizes' = resizes + 1
     /\ lastOp' = IF lastOp # "tick" /\ win = window THEN "resize again" ELSE "resize"
     /\ circlesA' = <<>>
     /\ circlesB' = <<>>
     /\ UNCHANGED <<lastSpawnA, lastSpawnB, lastNow, rafQueue,
                    now, ticks, nextId, frameA, frameB, probe>>

\* A resize event with the viewport now win: the listeners of lines 153 and
\* 295 run in registration order.
ResizeEvent(win) ==
  \E a \in {resizeCanvas([scale |-> devicePixelRatioScaleA, canvas |-> canvas, ctx |-> ctx],
                          win)} :
  \E b \in {resizeCanvas([scale |-> devicePixelRatioScaleB, canvas |-> a.canvas,
                           ctx |-> a.ctx], win)} :
     /\ window' = win
     /\ devicePixelRatioScaleA' = a.scale
     /\ devicePixelRatioScaleB' = b.scale
     /\ canvas' = b.canvas
     /\ ctx' = b.ctx
     /\ resizes' = resizes + 1
     /\ lastOp' = IF lastOp # "tick" /\ win = window THEN "resize again" ELSE "resize"
     /\ UNCHANGED <<circlesA, circlesB, lastSpawnA, lastSpawnB, lastNow, rafQueue,
                    now, ticks, nextId, frameA, frameB, probe>>

----------------------------------------------------------------------------
(* SpecFrames: the timing of frames.  No resize event occurs; frames come  *)
(* at every mix of a steady gap, a skipped-frame gap, a gap past the spawn *)
(* interval and a long stall; spawns are single particles and bursts with  *)
(* mixed lifetimes.  Both animators meet the same random outcomes.         *)

FrameTicks == 3

FrameGaps == {50, 200, 450, 6000}

FrameDraws ==
  {One(<<Short, Short, Short>>), One(<<Long, Short, Long>>),
   Two(<<Short, Short, Short>>), Two(<<Long, Short, Long>>),
   Three(<<Short, Short, Short>>), Three(<<Long, Short, Long>>)}

InitFrames == Boot(Win(1000, 800, RInt(1))) /\ probe = NoProbe

NextFrames ==
  /\ ticks < FrameTicks
  /\ \E gap \in FrameGaps : \E draw \in WhenDue(now + gap, FrameDraws) :
       Tick(now + gap, draw, draw)

SpecFrames == InitFrames /\ [][NextFrames]_vars

----------------------------------------------------------------------------
(* SpecSteady: a display that refreshes steadily, one frame every 50 ms,   *)
(* with every spawn a burst of three long-lived particles.                 *)

SteadyTicks == 340

SteadyGap == 50

InitSteady == Boot(Win(1000, 800, RInt(1))) /\ probe = NoProbe

NextSteady ==
  /\ ticks < SteadyTicks
  /\ Tick(now + SteadyGap, Three(<<Long, Long, Long>>), Three(<<Long, Long, Long>>))

SpecSteady == InitSteady /\ [][NextSteady]_vars

----------------------------------------------------------------------------
(* SpecSurface: resize events between frames.  The viewport is large,      *)
(* odd-sized at a fractional pixel ratio, small, or empty, and the pixel   *)
(* ratio may be above the cap, zero or missing.  Every frame is a spawn    *)
(* event of one particle, its radius drawn low or high and its position    *)
(* low on one axis and high on the other.                                  *)

SurfaceTicks == 2

SurfaceGap == 450

Windows ==
  {Win(1000, 800, RInt(1)), Win(801, 601, Rat(3, 2)), Win(100, 200, RInt(3)),
   Win(0, 600, Undefined), Win(0, 0, RInt(0))}

SurfaceDraws ==
  {One(<<[radius |-> r, x |-> x, y |-> RandDen - 1 - x, lifeMs |-> 0, skew |-> 0],
         Short, Short>>) :
     r \in {0, RandDen - 1}, x \in {0, RandDen - 1}}

Init == probe = NoProbe /\ \E win \in Windows : Boot(win)

NextSurface ==
  \/ /\ ticks < SurfaceTicks
     /\ \E draw \in SurfaceDraws : Tick(now + SurfaceGap, draw, draw)
  \/ /\ resizes < MaxResizes
     /\ \E win \in Windows : ResizeEvent(win)

SpecSurface == Init /\ [][NextSurface]_vars

----------------------------------------------------------------------------
(* SpecPhases: whole lives of particles.  Frames come 20 ms, 50 ms, 2.5 s   *)
(* or 6 s after the previous one, so that a particle is met while fading   *)
(* in, held, fading out and expired; the two animators meet different      *)
(* random outcomes: A spawns a pair with a short and a long life, B a      *)
(* burst of three.  Once, between any two frames, the viewport is resized  *)
(* to an odd-sized one at a fractional pixel ratio.                        *)

PhaseTicks == 5

PhaseGaps == {20, 50, 2500, 6000}

PhaseDrawA == Two(<<Short, Long, Short>>)

PhaseDrawB == Three(<<Long, Short, Short>>)

InitPhases == Boot(Win(1000, 800, RInt(1))) /\ probe = NoProbe

NextPhases ==
  \/ /\ ticks < PhaseTicks
     /\ \E gap \in PhaseGaps : Tick(now + gap, PhaseDrawA, PhaseDrawB)
  \/ /\ resizes = 0
     /\ ResizeEvent(Win(801, 601, Rat(3, 2)))

SpecPhases == InitPhases /\ [][NextPhases]_vars

----------------------------------------------------------------------------
(* SpecAlpha: the loop body as a function of one particle's age.  A        *)
(* particle of a given lifetime, created at ProbeCreatedAt, meets a frame  *)
(* in which its age is a multiple of 250 ms (animator A first advances its *)
(* createdAt by the frame's delta).                                        *)

ProbeSteps == 56

ProbeCreatedAt == 1000

ProbeLives == {6000, 9000, 10000, 13750}

ProbeInputs ==
  {[NoProbe EXCEPT !.variant = v, !.lifeMs = life, !.age = 250 * k, !.delta = d] :
     v \in {"A", "B"}, life \in ProbeLives, k \in 0 .. ProbeSteps, d \in {0, 50}}

ProbeCircle == Particle(window, Short, RInt(probe.lifeMs), ProbeCreatedAt, 1)

ProbeAcc == [circles |-> <<ProbeCircle>>, ctx |-> ctx, frame |-> NoFrame]

InitAlpha == probe \in ProbeInputs /\ Boot(Win(1000, 800, RInt(1)))

ProbeA ==
  /\ probe.variant = "A" /\ ~probe.done
  /\ probe' = [probe EXCEPT
                 !.done = TRUE,
                 !.frame = bodyA(ProbeAcc, 1, ProbeCreatedAt + probe.delta + probe.age,
                                 probe.delta).frame]
  /\ UNCHANGED <<window, canvas, ctx, devicePixelRatioScaleA, devicePixelRatioScaleB,
                 circlesA, circlesB, lastSpawnA, lastSpawnB, lastNow, rafQueue,
                 now, ticks, resizes, lastOp, nextId, frameA, frameB>>

ProbeB ==
  /\ probe.variant = "B" /\ ~probe.done
  /\ probe' = [probe EXCEPT
                 !.done = TRUE,
                 !.frame = bodyB(ProbeAcc, 1, ProbeCreatedAt + probe.age).frame]
  /\ UNCHANGED <<window, canvas, ctx, devicePixelRatioScaleA, devicePixelRatioScaleB,
                 circlesA, circlesB, lastSpawnA, lastSpawnB, lastNow, rafQueue,
                 now, ticks, resizes, lastOp, nextId, frameA, frameB>>

NextAlpha == ProbeA \/ ProbeB

SpecAlpha == InitAlpha /\ [][NextAlpha]_vars

----------------------------------------------------------------------------
(* Properties.                                                             *)

Range(seq) == {seq[i] : i \in 1 .. Len(seq)}

Ids(seq) == {seq[i].id : i \in 1 .. Len(seq)}

\* C1: no particle persists past its lifetime: after a frame with timestamp
\* now, neither collection holds a particle whose spawn timestamp (bornAt)
\* lies lifeMs or more before now.
C1_NoParticlePastLifetime ==
  \A c \in Range(circlesA) \cup Range(circlesB) : RLt(RInt(now - c.bornAt), c.lifeMs)

\* The bound on the population that follows from the 400 ms spawn interval,
\* the largest burst (3) and the largest lifetime (14000 ms).
PopulationBound == 3 * (14000 \div 400 + 1)

\* C2: after every frame each collection holds at most PopulationBound
\* particles.
C2_PopulationBounded ==
  /\ Len(circlesA) <= PopulationBound
  /\ Len(circlesB) <= PopulationBound

\* C3: after any frame, no particle of either collection has an age (the
\* frame's timestamp minus its createdAt) of lifeMs or more, whether it was
\* there before the frame or was spawned in it.
C3_NoExpiredAfterFrame ==
  ticks > 0 =>
    \A c \in Range(circlesA) \cup Range(circlesB) : RLt(RInt(now - c.createdAt), c.lifeMs)

\* C3 witness: a third frame in which each animator removed an expired
\* particle, kept an older one and spawned new ones.
C3_Witness ==
  /\ ticks = 3
  /\ frameA.removed # <<>> /\ frameA.spawned > 0 /\ Len(circlesA) > frameA.spawned
  /\ frameB.removed # <<>> /\ frameB.spawned > 0 /\ Len(circlesB) > frameB.spawned

\* C4: between two consecutive frames of animator A whose timestamps differ
\* by d, the age of every particle present after both advances by
\* min(max(d, 0), 50).
C4_AgeAdvancesByClampedDelta ==
  [][ticks' = ticks + 1 =>
       \A i \in 1 .. Len(circlesA) : \A j \in 1 .. Len(circlesA') :
         circlesA[i].id = circlesA'[j].id =>
           (now' - circlesA'[j].createdAt) - (now - circlesA[i].createdAt)
             = MinInt(MaxInt(now' - now, 0), 50)]_vars

\* What C5 says of one animator in one frame: particles are appended only
\* when the frame's timestamp is more than 400 ms past the previous spawn
\* event, then 1, 2 or 3 of them, and the frame becomes the previous spawn
\* event; otherwise the previous spawn event stays what it was.
CadenceStep(circles, circlesNext, lastSpawn, lastSpawnNext, t) ==
  LET appended == Cardinality(Ids(circlesNext) \ Ids(circles))
  IN IF appended > 0
     THEN t - lastSpawn > 400 /\ appended \in {1, 2, 3} /\ lastSpawnNext = t
     ELSE lastSpawnNext = lastSpawn

\* C5: spawn cadence: the previous spawn event is initially at 0, a frame
\* spawns only when more than 400 ms past it, and then 1, 2 or 3 particles.
C5_SpawnCadence ==
  /\ lastSpawnA = 0 /\ lastSpawnB = 0
  /\ [][ticks' = ticks + 1 =>
          /\ CadenceStep(circlesA, circlesA', lastSpawnA, lastSpawnA', now')
          /\ CadenceStep(circlesB, circlesB', lastSpawnB, lastSpawnB', now')]_vars

\* C5 witness: the third frame was a later spawn event, a burst of 3 appended
\* to particles of an earlier one.
C5_Witness ==
  /\ ticks = 3
  /\ lastSpawnA = now /\ frameA.spawned = 3 /\ Len(circlesA) > 3
  /\ lastSpawnB = now /\ frameB.spawned = 3 /\ Len(circlesB) > 3

\* C6: every particle drawn in a frame has an alpha in [0, 1] before the
\* dimming multiplier, and the opacity handed to the surface lies in
\* [0, dimming constant] (0.22 for animator A, 0.25 for animator B).
C6_AlphaInUnitRange ==
  /\ \A d \in Range(frameA.drawn) :
       /\ RLe(RInt(0), d.alpha) /\ RLe(d.alpha, RInt(1))
       /\ RLe(RInt(0), d.handed) /\ RLe(d.handed, Rat(22, 100))
  /\ \A d \in Range(frameB.drawn) :
       /\ RLe(RInt(0), d.alpha) /\ RLe(d.alpha, RInt(1))
       /\ RLe(RInt(0), d.handed) /\ RLe(d.handed, Rat(25, 100))

\* The particles a collection got in the latest frame, which spawned n.
Newest(circles, n) == {circles[i] : i \in Len(circles) - n + 1 .. Len(circles)}

Spawned == Newest(circlesA, frameA.spawned) \cup Newest(circlesB, frameB.spawned)

\* The radius range of the spec for a viewport w x h.
MinRadiusOf(w, h) == RMax(RInt(20), Rat(MinInt(w, h), 100))

MaxRadiusOf(w, h) == Rat(8 * MaxInt(w, h), 100)

\* C8: for every viewport, every particle produced by spawn has
\* minRadius <= radius <= maxRadius, and its radius is never below 20.
\* (Checked on the particles of the latest frame, with the viewport they
\* were spawned in still in place.)
C8_RadiusInRange ==
  lastOp = "tick" =>
    \A c \in Spawned :
      /\ RLe(MinRadiusOf(window.innerWidth, window.innerHeight), c.radius)
      /\ RLe(c.radius, MaxRadiusOf(window.innerWidth, window.innerHeight))
      /\ RLe(RInt(20), c.radius)

\* C9: every spawned particle lies in [-radius, W + radius] x
\* [-radius, H + radius] for its own radius and the viewport read at spawn.
C9_PositionInRange ==
  lastOp = "tick" =>
    \A c \in Spawned :
      /\ RLe(RNeg(c.radius), c.x) /\ RLe(c.x, RAdd(RInt(window.innerWidth), c.radius))
      /\ RLe(RNeg(c.radius), c.y) /\ RLe(c.y, RAdd(RInt(window.innerHeight), c.radius))

\* C9 witness: after a resize, a second frame spawned in a viewport of no
\* width a particle left of it, and animator B holds one right of it.
C9_Witness ==
  /\ lastOp = "tick" /\ resizes > 0 /\ window.innerWidth = 0 /\ Len(circlesA) = 2
  /\ \E c \in Spawned : RLt(c.x, RInt(0))
  /\ \E c \in Range(circlesB) : RLt(RInt(0), c.x)

\* C10: a resize that follows a resizeCanvas call and finds the window
\* unchanged leaves the scale factors, the backing resolution, the displayed
\* size and the transform as that call left them.
C10_ResizeIdempotent ==
  [][(lastOp # "tick" /\ resizes' = resizes + 1 /\ window' = window) =>
       /\ devicePixelRatioScaleA' = devicePixelRatioScaleA
       /\ devicePixelRatioScaleB' = devicePixelRatioScaleB
       /\ canvas' = canvas
       /\ ctx'.transform = ctx.transform]_vars

\* C10 witness: a repeated resize at a fractional scale after two frames and
\* an earlier resize.
C10_Witness ==
  /\ lastOp = "resize again" /\ resizes = 2 /\ ticks = 2
  /\ devicePixelRatioScaleA = Rat(3, 2) /\ canvas.width = 1201

\* The piecewise-linear reference of the spec for fade fractions 0.25, at
\* t = age / life: 4t below a quarter, 4(1 - t) above three quarters, else 1.
RefAlpha(age, life) ==
  IF 4 * age < life THEN Rat(4 * age, life)
  ELSE IF 4 * age > 3 * life THEN Rat(4 * (life - age), life)
  ELSE RInt(1)

\* C7: a particle met at an age in [0, lifeMs) is drawn with the reference
\* alpha: 0 at age 0, below 1 on the fades, 1 on the hold; for lifeMs = 10000
\* that is 0.4 at age 1000, 1 at 5000 and 0.2 at 9500; at an age of lifeMs
\* or more it is removed and not drawn.
C7_AlphaIsPiecewiseLinear ==
  probe.done =>
    IF probe.age < probe.lifeMs
    THEN /\ probe.frame.removed = <<>>
         /\ Len(probe.frame.drawn) = 1
         /\ probe.frame.drawn[1].age = probe.age
         /\ probe.frame.drawn[1].alpha = RefAlpha(probe.age, probe.lifeMs)
         /\ probe.age = 0 => probe.frame.drawn[1].alpha = RInt(0)
         /\ (probe.lifeMs = 10000 /\ probe.age = 1000) =>
              probe.frame.drawn[1].alpha = Rat(4, 10)
         /\ (probe.lifeMs = 10000 /\ probe.age = 5000) =>
              probe.frame.drawn[1].alpha = RInt(1)
         /\ (probe.lifeMs = 10000 /\ probe.age = 9500) =>
              probe.frame.drawn[1].alpha = Rat(2, 10)
    ELSE probe.frame.removed = <<1>> /\ probe.frame.drawn = <<>>

\* C7 witness: animator B met the particle of lifetime 10000 at age 9500
\* and drew it at alpha 0.2.
C7_Witness ==
  /\ probe.done /\ probe.variant = "B" /\ probe.lifeMs = 10000 /\ probe.age = 9500
  /\ Len(probe.frame.drawn) = 1
  /\ REq(probe.frame.drawn[1].alpha, Rat(1, 5))

\* The scale factor of the spec for a pixel ratio: 1 when the ratio is zero or
\* missing, else the ratio capped at 2.
ScaleOf(dpr) ==
  IF dpr.d = 0 \/ dpr.n = 0 THEN RInt(1)
  ELSE IF dpr.n > 2 * dpr.d THEN RInt(2)
  ELSE dpr

\* C11: in every state both animators' scale factor is ScaleOf of the pixel
\* ratio seen by the latest resize, so at most 2, and the backing resolution
\* is floor(W * scale) x floor(H * scale) for the viewport W x H seen by it.
C11_ScaleAndBackingSize ==
  LET scale == ScaleOf(window.devicePixelRatio)
  IN /\ devicePixelRatioScaleA = scale /\ devicePixelRatioScaleB = scale
     /\ scale.n <= 2 * scale.d
     /\ canvas.width = (window.innerWidth * scale.n) \div scale.d
     /\ canvas.height = (window.innerHeight * scale.n) \div scale.d

\* C11 witness: after two resize events the latest saw a pixel ratio of 3
\* in a viewport of 100 x 200: the scale is 2 and the backing size 200 x 400.
C11_Witness ==
  /\ resizes = 2 /\ lastOp = "resize"
  /\ window = Win(100, 200, RInt(3))
  /\ devicePixelRatioScaleB = RInt(2) /\ canvas.width = 200 /\ canvas.height = 400

\* The phase of a particle met at an age, in the order of the spec:
\* 1 FadingIn (t < 0.25), 2 Held, 3 FadingOut (t > 0.75), 4 Expired, for
\* t = age / lifeMs.
Phase(age, lifeMs) ==
  IF RLe(lifeMs, RInt(age)) THEN 4
  ELSE IF RLt(RInt(4 * age), lifeMs) THEN 1
  ELSE IF RLt(RMul(RInt(3), lifeMs), RInt(4 * age)) THEN 3
  ELSE 2

\* What C12 says of one animator in one frame, given what its previous frame
\* (before) and this frame (after) met: a particle met in both has not lost
\* age nor gone back a phase, a particle met for the first time is fading
\* in, the particles removed are those met at an age of lifeMs or more, and
\* every particle that left the collection was removed by the loop.
PhaseStep(circles, circlesNext, before, after) ==
  /\ \A s \in Range(before.seen) : \A n \in Range(after.seen) :
        s.id = n.id => /\ n.age >= s.age
                       /\ Phase(n.age, n.lifeMs) >= Phase(s.age, s.lifeMs)
  /\ \A n \in Range(after.seen) :
        /\ n.id \notin Ids(circles) => Phase(n.age, n.lifeMs) = 1
        /\ n.id \in Range(after.removed) <=> RLe(n.lifeMs, RInt(n.age))
  /\ Ids(circles) \ Ids(circlesNext) \subseteq Range(after.removed)

\* C12: particles move through their phases only forward: from one frame
\* to the next, for non-decreasing timestamps, no particle's age decreases,
\* no phase returns to an earlier one, and a particle is removed only in a
\* frame where its age is at least lifeMs.
C12_PhasesOnlyForward ==
  [][/\ ticks' = ticks + 1 =>
          /\ PhaseStep(circlesA, circlesA', frameA, frameA')
          /\ PhaseStep(circlesB, circlesB', frameB, frameB')
     /\ ticks' = ticks =>
          /\ Ids(circlesA') = Ids(circlesA)
          /\ Ids(circlesB') = Ids(circlesB)]_vars

\* C12 witness: in a fifth frame animator A met particles fading in, held
\* and fading out, and animator B removed an expired one.
C12_Witness ==
  /\ ticks = 5
  /\ \A ph \in {1, 2, 3} : \E s \in Range(frameA.seen) : Phase(s.age, s.lifeMs) = ph
  /\ frameB.removed # <<>>

\* What C13 says of one animator's collection in one step: it changes only
\* in a frame, and then the particles the loop removed are gone, the others
\* keep their places, and the new ones follow them.
CollectionStep(circles, circlesNext, after) ==
  LET kept == SelectSeq(circles, LAMBDA c : c.id \notin Range(after.removed))
  IN IF ticks' = ticks + 1
     THEN /\ Len(circlesNext) = Len(kept) + after.spawned
          /\ \A i \in 1 .. Len(kept) : circlesNext[i].id = kept[i].id
          /\ \A i \in Len(kept) + 1 .. Len(circlesNext) :
                circlesNext[i].id \notin Ids(circles)
     ELSE circlesNext = circles

\* C13: a resize event leaves both collections with every particle's
\* fields, lastSpawn and lastNow (and the pending callbacks and the global
\* opacity) unchanged; a collection changes only in a frame, by expiry
\* removing and spawn appending.
C13_ResizeLeavesParticles ==
  [][/\ resizes' = resizes + 1 =>
          /\ circlesA' = circlesA /\ circlesB' = circlesB
          /\ lastSpawnA' = lastSpawnA /\ lastSpawnB' = lastSpawnB
          /\ lastNow' = lastNow /\ rafQueue' = rafQueue
          /\ ctx'.globalAlpha = ctx.globalAlpha
     /\ CollectionStep(circlesA, circlesA', frameA')
     /\ CollectionStep(circlesB, circlesB', frameB')]_vars

\* C13 witness: a resize came between frames while both collections held
\* particles, and the frame after it removed an expired particle of
\* animator B, kept others and spawned.
C13_Witness ==
  /\ lastOp = "tick" /\ resizes > 0 /\ window.innerWidth = 801
  /\ frameB.removed # <<>> /\ frameB.spawned > 0 /\ Len(circlesB) > frameB.spawned
  /\ \E c \in Range(circlesA) : c.radius = RInt(20)

\* What C14 says of one animator's loop in one frame: the particles in the
\* collection when the loop starts (those of the previous state and those
\* the frame spawned) are each examined once; those met at an age of lifeMs
\* or more are removed, are not drawn and are gone from the collection; the
\* others are drawn and stay, in their order.
TraversalStep(circles, circlesNext, after) ==
  /\ Len(after.examined) = Len(circles) + after.spawned
  /\ Cardinality(Range(after.examined)) = Len(after.examined)
  /\ Range(after.examined) = Ids(circles) \cup Ids(circlesNext)
  /\ \A n \in Range(after.seen) :
        IF RLe(n.lifeMs, RInt(n.age))
        THEN /\ n.id \in Range(after.removed)
             /\ n.id \notin Ids(circlesNext)
             /\ \A d \in Range(after.drawn) : d.id # n.id
        ELSE /\ n.id \notin Range(after.removed)
             /\ n.id \in Ids(circlesNext)
             /\ \E d \in Range(after.drawn) : d.id = n.id
  /\ \A i \in 1 .. Len(circlesNext) : \A j \in 1 .. Len(circlesNext) :
        i < j => circlesNext[i].id < circlesNext[j].id
  /\ \A i \in 1 .. Len(circles) : \A j \in 1 .. Len(circlesNext) :
        circles[i].id = circlesNext[j].id =>
          j = Cardinality({k \in 1 .. i : circles[k].id \in Ids(circlesNext)})

\* C14: the reverse-index traversal with in-place removal is safe: in every
\* frame each particle present at the start of the loop is examined exactly
\* once, every examined particle with age >= lifeMs is removed (adjacent ones
\* too) and not drawn, and the survivors keep their relative order.
C14_ReverseTraversalSafe ==
  [][ticks' = ticks + 1 =>
       /\ TraversalStep(circlesA, circlesA', frameA')
       /\ TraversalStep(circlesB, circlesB', frameB')]_vars

\* C14 witness: a frame of animator B removed two particles next to each
\* other in the collection, between survivors, and drew the rest.
C14_Witness ==
  /\ lastOp = "tick"
  /\ \E i \in 1 .. Len(frameB.removed) - 1 :
        /\ frameB.removed[i] = frameB.removed[i + 1] + 1
        /\ \E c \in Range(circlesB) : c.id < frameB.removed[i + 1]
        /\ \E c \in Range(circlesB) : c.id > frameB.removed[i]
  /\ Len(frameB.drawn) = Len(circlesB)
  /\ frameA.removed # <<>> /\ circlesA # <<>>

\* How many times a callback is pending in a queue.
Pending(queue, callback) == Cardinality({i \in 1 .. Len(queue) : queue[i] = callback})

\* C15: whenever no frame is executing (after initialisation, after every
\* frame and after every resize event) each animator has exactly one pending
\* next-frame callback; a frame had its successor pending, once, from its
\* start (when it cleared the surface); and every refresh tick ran a frame
\* of each animator.
C15_OnePendingCallback ==
  /\ Pending(rafQueue, "A") = 1 /\ Pending(rafQueue, "B") = 1
  /\ frameA.ran => Pending(frameA.pending, "A") = 1
  /\ frameB.ran => Pending(frameB.pending, "B") = 1
  /\ ticks > 0 => /\ frameA.ran /\ frameA.now = now
                  /\ frameB.ran /\ frameB.now = now

\* C15 witness: after two frames and two resize events, the last step a
\* frame, one callback of each animator is pending.
C15_Witness ==
  /\ ticks = 2 /\ resizes = 2 /\ lastOp = "tick"
  /\ Len(rafQueue) = 2 /\ Pending(rafQueue, "A") = 1 /\ Pending(rafQueue, "B") = 1
  /\ frameB.pending = <<"A", "B">>

\* The frames of the latest refresh tick.
LatestFrames == IF lastOp = "tick" THEN {frameA, frameB} ELSE {}

\* C16 as stated: in every frame the cleared rectangle, in layout pixels, is
\* at least as wide and as high as the viewport seen by the latest resize.
C16_ClearedCoversViewport ==
  \A f \in LatestFrames :
    /\ RLe(RInt(window.innerWidth), f.cleared[1])
    /\ RLe(RInt(window.innerHeight), f.cleared[2])

\* C16 amended: in every frame the cleared rectangle covers the whole
\* surface: mapped through the transform it is the backing size; in layout
\* pixels it is at most the viewport and short of it by less than 1 / scale.
C16_ClearedCoversSurface ==
  \A f \in LatestFrames :
    /\ RMul(f.cleared[1], ctx.transform[1]) = RInt(canvas.width)
    /\ RMul(f.cleared[2], ctx.transform[4]) = RInt(canvas.height)
    /\ RLe(f.cleared[1], RInt(window.innerWidth))
    /\ RLe(f.cleared[2], RInt(window.innerHeight))
    /\ RLt(RMul(RSub(RInt(window.innerWidth), f.cleared[1]), ctx.transform[1]), RInt(1))
    /\ RLt(RMul(RSub(RInt(window.innerHeight), f.cleared[2]), ctx.transform[4]), RInt(1))

\* C16 witness: a frame in the viewport 801 x 601 at scale 1.5 cleared a
\* rectangle 1201 / 1.5 wide and 901 / 1.5 high.
C16_Witness ==
  /\ lastOp = "tick" /\ window = Win(801, 601, Rat(3, 2))
  /\ frameA.cleared = <<Rat(2402, 3), Rat(1802, 3)>>
  /\ frameB.cleared = <<Rat(2402, 3), Rat(1802, 3)>>

\* C17: whenever no frame is executing (after initialisation, after every
\* completed frame, after every resize event) the global opacity of the
\* surface is 1.
C17_GlobalAlphaRestored == ctx.globalAlpha = RInt(1)

\* C17 witness: a frame of each animator removed a particle and drew others
\* at an opacity below 1, and the global opacity is 1 after it.
C17_Witness ==
  /\ lastOp = "tick" /\ ctx.globalAlpha = RInt(1)
  /\ frameA.removed # <<>> /\ frameB.removed # <<>>
  /\ \E d \in Range(frameA.drawn) : RLt(RInt(0), d.handed) /\ RLt(d.handed, RInt(1))
  /\ \E m \in Range(ctx.surface) : RLt(RInt(0), m.alpha) /\ RLt(m.alpha, RInt(1))

C19_SecondAnimatorOverdraws ==
  /\ Ids(circlesA) \cap Ids(circlesB) = {}
  /\ Range(frameA.examined) \cap Range(frameB.examined) = {}
  /\ lastSpawnA = lastSpawnB
  /\ rafQueue = <<"A", "B">>
  /\ lastOp = "tick" =>
       /\ frameA.pending = <<"A">> /\ frameB.pending = <<"A", "B">>
       /\ Len(ctx.surface) = Len(frameB.drawn)
  /\ \A m \in Range(ctx.surface) : m.by = "B" /\ m.id \in Ids(circlesB)

\* C19 witness: a refresh tick in which animator A drew four particles and
\* animator B drew others, of which alone the surface holds marks.
C19_Witness ==
  /\ lastOp = "tick" /\ Len(frameA.drawn) = 4 /\ Len(frameB.drawn) > 4
  /\ Len(ctx.surface) = Len(frameB.drawn)
  /\ \A m \in Range(ctx.surface) : m.by = "B"

====
